---------------------------- MODULE Spec2Model ----------------------------
(***************************************************************************)
(* Model of teafis/scripts-sockets.                                        *)
(*                                                                         *)
(*  - android_sensor_udp.py: the worker thread read_process_json_to_queue, *)
(*    ProcessSensorDecoder.poll / stop and the dispatch loop of main.      *)
(*    Sensor: the id table, set_values and construct_packet.               *)
(*  - efis_packet_format.py: SignalList.__init__ and                       *)
(*    SignalDefinition.from_csv_line (the schema loader), get_definition,  *)
(*    and GenericPacket / AnalogPacket (the analog encoder).               *)
(*  - xp_data_forwarder.py: the forwarding loop.                           *)
(*                                                                         *)
(* Python's None is the empty tuple <<>>, a value v that may be None is    *)
(* the one-element tuple <<v>>.                                            *)
(***************************************************************************)
EXTENDS Integers, Sequences, FiniteSets, TLC

None == <<>>
Some(v) == <<v>>

(***************************************************************************)
(* Floats and struct.pack.  A float is the fraction num / den with         *)
(* den > 0; den = 0 stands for the floats that are no reals: 1/0 and -1/0  *)
(* the infinities, 0/0 NaN.  struct.pack gives a record: the bytes, or the *)
(* error it raised.                                                        *)
(***************************************************************************)
\* the range of struct format 'i'
IntMax == 2147483647
IntMin == (0 - 2147483647) - 1

Float(n, d) == [num |-> n, den |-> d]
NaN == Float(0, 0)
PosInf == Float(1, 0)

Packed(bytes) == [err |-> "none", bytes |-> bytes]
PackError(e) == [err |-> e, bytes |-> <<>>]

IsU8(n) == 0 <= n /\ n <= 255

\* the four bytes of 0 <= n <= IntMax, most significant first ('!')
BytesBE(n) == <<n \div 16777216, (n \div 65536) % 256, (n \div 256) % 256, n % 256>>

\* struct.pack('!i', n) for IntMin <= n <= IntMax: two's complement
PackI32(n) ==
    IF n >= 0 THEN BytesBE(n)
    ELSE LET m == BytesBE(0 - (n + 1))
         IN  [k \in 1..4 |-> 255 - m[k]]

(***************************************************************************)
(* Bounds of the decoder model.                                            *)
(***************************************************************************)
\* lines the subprocess writes to its stdout in one run
MaxLines == 4
\* lines the stdout pipe holds before the subprocess blocks in write
MaxPipe == 1
\* largest json_limit_count a caller passes to poll
MaxLimit == 1

\* exit statuses of the subprocess when it ends by itself
ExitCodes == {0, 1}
\* Popen.poll() of a child killed by SIGINT: -signal.SIGINT
SigIntCode == 0 - 2
\* stop(): the status recorded when the worker reported none
NoStatus == 0 - 1

\* the lines the subprocess prints, as read_process_json_to_queue sees them
\* after decode and strip: the two brace lines, a member line
\*   "Game Rotation Vector": {"values": [0.5, 0.25]}
\* and a line that is not JSON; "0xFF" is the line of the one byte 0xFF,
\* which is not UTF-8
OutLines == {"{", "}", "m", "x", "0xFF"}

VARIABLES
    \* the subprocess and its stdout pipe
    proc, proc_rc, pipe, written,
    \* read_process_json_to_queue: position and locals
    wpc, w_rc, json_str_list,
    \* ProcessSensorDecoder fields
    json_queue, stop_queue, return_code_queue, rc, sensors,
    \* Sensor.sensor_name_ids
    sensor_name_ids,
    \* the keys of ProcessSensorDecoder.sensors in the order a dict iterates
    \* them (insertion order), and the sensor block main last sent
    sensor_order, sent_block,
    \* main / poll / stop: position and locals
    mpc, stop_caller, json_count, json_limit_count, interrupted,
    \* history: dequeues of the running poll, records enqueued and applied,
    \* what the last poll returned, what the worker reported
    dequeued, enqueued, applied, poll_result, reported,
    \* SignalList.__init__: the argument, the text read from it, position
    \* and locals of the loop, the fields version and def_list, and how the
    \* constructor ended
    source_kind, data, lpc, lines, idx, first_line, version, def_list, outcome,
    \* SignalList.get_definition: the name last asked for and what was returned
    query, got,
    \* AnalogPacket: position of the caller that binds and encodes, the fields
    \* dev_from_id and signal_def, the error from_signal_def raised, and the
    \* two latest calls of create_packet_with_data with what they gave
    epc, dev_from_id, signal_def, bind_error, encoded,
    \* xp_data_forwarder.py: position in the loop, index of the link of the
    \* for loop, XPlaneDataReceiver.dataref_dict, the value last handed to the
    \* encoder, the links a packet was sent for in this cycle, and the
    \* exception that ended the program
    fpc, link_idx, dataref_dict, handed, sent_links, fwd_error,
    \* how many receives in a row have failed (counted up to MaxErrors)
    socket_errors,
    \* threads that construct Sensor objects: the name each passes, its
    \* position in Sensor.__init__, the size of the table when its iteration
    \* over the values began, its local max_id_val, and the sensor_id its
    \* instance got
    t_name, tpc, t_size, max_id_val, t_sensor_id

procvars == <<proc, proc_rc, pipe, written>>
workervars == <<wpc, w_rc, json_str_list>>
mainvars == <<rc, sensors, sensor_name_ids, sensor_order, sent_block, mpc,
              stop_caller, json_count,
              json_limit_count, interrupted, dequeued, applied, poll_result>>

dvars == <<procvars, workervars, mainvars, json_queue, enqueued, stop_queue,
           return_code_queue, reported>>

lvars == <<source_kind, data, lpc, lines, idx, first_line, version, def_list,
           outcome, query, got>>

evars == <<epc, dev_from_id, signal_def, bind_error, encoded>>

fvars ==
    <<fpc, link_idx, dataref_dict, handed, sent_links, fwd_error, socket_errors>>

tvars == <<t_name, tpc, t_size, max_id_val, t_sensor_id>>

\* the decoder's state without the class table Sensor.sensor_name_ids
decoder_but_ids ==
    <<procvars, workervars, rc, sensors, sensor_order, sent_block, mpc,
      stop_caller, json_count, json_limit_count, interrupted, dequeued,
      applied, poll_result, json_queue, enqueued, stop_queue,
      return_code_queue, reported>>

\* what the steps of one part leave alone of the other parts
notdecoder == <<lvars, evars, fvars, tvars>>
notloader == <<dvars, evars, fvars, tvars>>
notencoder == <<dvars, lvars, fvars, tvars>>
notforwarder == <<dvars, lvars, evars, tvars>>
notthreads == <<decoder_but_ids, lvars, evars, fvars>>

vars == <<dvars, lvars, evars, fvars, tvars>>

(***************************************************************************)
(* json.loads('\n'.join(json_str_list)) on a block "{" ... "}".            *)
(* The block parses when there is nothing between the braces (the empty    *)
(* object) or exactly one member line; two member lines have no comma      *)
(* between them and "x" is no JSON at all.                                 *)
(***************************************************************************)
JsonBody(block) == SubSeq(block, 2, Len(block) - 1)

JsonDecodes(block) ==
    /\ Len(block) >= 2
    /\ block[1] = "{"
    /\ block[Len(block)] = "}"
    /\ Len(JsonBody(block)) <= 1
    /\ \A i \in 1..Len(JsonBody(block)) : JsonBody(block)[i] = "m"

\* the decoded object: a sequence of (sensor name, sensor dict) items
JsonLoads(block) ==
    [i \in 1..Len(JsonBody(block)) |->
        [name |-> "Game Rotation Vector",
         values |-> Some(<<Float(1, 2), Float(1, 4)>>)]]

(***************************************************************************)
(* The subprocess (environment).                                           *)
(***************************************************************************)
ProcWrite(line) ==
    /\ proc = "running"
    /\ written < MaxLines
    /\ Len(pipe) < MaxPipe
    /\ pipe' = Append(pipe, line)
    /\ written' = written + 1
    /\ UNCHANGED <<notdecoder, proc, proc_rc, workervars, mainvars, json_queue, enqueued,
                   stop_queue, return_code_queue, reported>>

ProcExit(code) ==
    /\ proc = "running"
    /\ proc' = "exited"
    /\ proc_rc' = code
    /\ UNCHANGED <<notdecoder, pipe, written, workervars, mainvars, json_queue, enqueued,
                   stop_queue, return_code_queue, reported>>

(***************************************************************************)
(* read_process_json_to_queue (the worker thread).                         *)
(***************************************************************************)
\* subprocess.Popen(args_list, ...): the child starts, or Popen raises
\* (./make.out missing) and the thread ends without reporting a status
WorkerStart(ok) ==
    /\ wpc = "start"
    /\ IF ok
          THEN proc' = "running" /\ wpc' = "read"
          ELSE proc' = proc /\ wpc' = "dead"
    /\ UNCHANGED <<notdecoder, proc_rc, pipe, written, w_rc, json_str_list, mainvars,
                   json_queue, enqueued, stop_queue, return_code_queue, reported>>

\* line 124: output.decode('utf-8') raises UnicodeDecodeError on a line that
\* is not UTF-8; the call stands outside the try of lines 138-142
Utf8Decodes(line) == line # "0xFF"

\* one pass of the while loop up to the stop check: readline() returns a
\* line of the pipe, or b'' once the child has exited and the pipe is empty;
\* an exception of line 124 ends the thread with nothing put in
\* return_code_queue
WorkerRead ==
    /\ wpc = "read"
    /\ pipe # <<>> \/ proc = "exited"
    /\ IF pipe = <<>>
          THEN /\ w_rc' = Some(proc_rc)
               /\ UNCHANGED <<pipe, json_str_list, json_queue, enqueued>>
          ELSE LET decoded_str == Head(pipe)
                   started == decoded_str = "{" \/ json_str_list # None
                   block == IF decoded_str = "{"
                               THEN <<decoded_str>>
                               ELSE Append(json_str_list, decoded_str)
               IN  /\ pipe' = Tail(pipe)
                   /\ w_rc' = w_rc
                   /\ IF ~Utf8Decodes(decoded_str) \/ ~started
                         THEN UNCHANGED <<json_str_list, json_queue, enqueued>>
                         ELSE IF decoded_str # "}"
                         THEN /\ json_str_list' = block
                              /\ UNCHANGED <<json_queue, enqueued>>
                         ELSE /\ json_str_list' = None
                              /\ IF JsonDecodes(block)
                                    THEN /\ json_queue' = Append(json_queue, JsonLoads(block))
                                         /\ enqueued' = enqueued + 1
                                    ELSE UNCHANGED <<json_queue, enqueued>>
    /\ wpc' = IF pipe # <<>> /\ ~Utf8Decodes(Head(pipe)) THEN "dead" ELSE "stopchk"
    /\ UNCHANGED <<notdecoder, proc, proc_rc, written, mainvars, stop_queue,
                   return_code_queue, reported>>

\* "if not stop_queue.empty()": SIGINT to the child, wait, take its status;
\* then the loop test "while rc is None"
WorkerStopCheck ==
    /\ wpc = "stopchk"
    /\ IF stop_queue > 0
          THEN /\ proc' = "exited"
               /\ proc_rc' = IF proc = "exited" THEN proc_rc ELSE SigIntCode
               /\ w_rc' = Some(proc_rc')
          ELSE UNCHANGED <<proc, proc_rc, w_rc>>
    /\ wpc' = IF w_rc' = None THEN "read" ELSE "put_rc"
    /\ UNCHANGED <<notdecoder, pipe, written, json_str_list, mainvars, json_queue,
                   enqueued, stop_queue, return_code_queue, reported>>

\* return_code_queue.put(rc); return rc
WorkerPutRc ==
    /\ wpc = "put_rc"
    /\ return_code_queue' = Append(return_code_queue, w_rc[1])
    /\ reported' = w_rc
    /\ wpc' = "dead"
    /\ UNCHANGED <<notdecoder, procvars, w_rc, json_str_list, mainvars, json_queue,
                   enqueued, stop_queue>>

(***************************************************************************)
(* Sensor: the class-level table sensor_name_ids and the instances held in *)
(* ProcessSensorDecoder.sensors.                                           *)
(***************************************************************************)
SeedSensorIds ==
    [n \in {"3-axis Gyroscope", "3-axis Accelerometer", "Game Rotation Vector"} |->
        CASE n = "3-axis Gyroscope" -> 1
          [] n = "3-axis Accelerometer" -> 2
          [] n = "Game Rotation Vector" -> 3]

MaxOf(S) == CHOOSE m \in S : \A x \in S : x <= m

\* Sensor.__init__ giving a new name the largest id of the table
SensorInitIdsMax(ids, name) ==
    IF name \in DOMAIN ids
       THEN ids
       ELSE ids @@ (name :> MaxOf({ids[n] : n \in DOMAIN ids}))

\* Sensor.__init__: the table after constructing a Sensor called name
SensorInitIds(ids, name) ==
    IF name \in DOMAIN ids
       THEN ids
       ELSE ids @@ (name :> MaxOf({ids[n] : n \in DOMAIN ids}) + 1)

\* Sensor.__init__: the new instance
SensorInit(ids, name) ==
    [sensor_id |-> SensorInitIds(ids, name)[name], name |-> name,
     vals |-> <<>>, updated |-> FALSE]

\* Sensor.set_values
SetValues(sensor, vals) == [sensor EXCEPT !.vals = vals, !.updated = TRUE]

\* poll, the body of "for sensor_name, sensor_dict in json_data.items()":
\* st is the triple [ids, sensors, order] before the item, the result the
\* triple after
ApplyItem(st, item) ==
    LET known == item.name \in DOMAIN st.sensors
        ids1 == IF known THEN st.ids ELSE SensorInitIds(st.ids, item.name)
        sensors1 == IF known THEN st.sensors
                    ELSE st.sensors @@ (item.name :> SensorInit(st.ids, item.name))
    IN  [ids |-> ids1,
         order |-> IF known THEN st.order ELSE Append(st.order, item.name),
         sensors |-> IF item.values # None
                        THEN [sensors1 EXCEPT ![item.name] = SetValues(@, item.values[1])]
                        ELSE sensors1]

RECURSIVE ApplyItems(_, _)
ApplyItems(st, items) ==
    IF items = <<>> THEN st
    ELSE ApplyItems(ApplyItem(st, Head(items)), Tail(items))

(***************************************************************************)
(* ProcessSensorDecoder.poll and stop, and the loop of main that calls     *)
(* them.  worker_unch is what the main thread never writes.                *)
(***************************************************************************)
PollPending == [kind |-> "pending", value |-> 0]
PollNone == [kind |-> "none", value |-> 0]
PollStatus(v) == [kind |-> "status", value |-> v]

\* poll, lines 190-195: the early return once rc is set, else json_count = 0;
\* limit is the caller's json_limit_count (25 when the caller gives none)
PollEnter(limit) ==
    /\ mpc = "poll"
    /\ IF rc # None
          THEN /\ poll_result' = PollStatus(rc[1])
               /\ mpc' = "finished"
               /\ UNCHANGED <<json_count, json_limit_count, dequeued>>
          ELSE /\ poll_result' = PollPending
               /\ json_count' = 0
               /\ json_limit_count' = limit
               /\ dequeued' = 0
               /\ mpc' = "drain"
    /\ UNCHANGED <<notdecoder, procvars, workervars, rc, sensors, sensor_name_ids,
                   sensor_order, sent_block,
                   stop_caller, interrupted, applied, json_queue, enqueued,
                   stop_queue, return_code_queue, reported>>

\* poll, lines 198-213: the loop test and one pass of the drain loop;
\* json_count is compared but no statement of the loop assigns it
PollDrain ==
    /\ mpc = "drain"
    /\ IF json_queue # <<>> /\ json_count < json_limit_count
          THEN LET st == ApplyItems([ids |-> sensor_name_ids, sensors |-> sensors,
                                     order |-> sensor_order],
                                    Head(json_queue))
               IN  /\ json_queue' = Tail(json_queue)
                   /\ sensors' = st.sensors
                   /\ sensor_name_ids' = st.ids
                   /\ sensor_order' = st.order
                   /\ UNCHANGED sent_block
                   /\ dequeued' = dequeued + 1
                   /\ applied' = applied + 1
                   /\ mpc' = "drain"
          ELSE /\ mpc' = "alive"
               /\ UNCHANGED <<json_queue, sensors, sensor_name_ids, sensor_order,
                              sent_block, dequeued, applied>>
    /\ UNCHANGED <<notdecoder, procvars, workervars, rc, stop_caller, json_count,
                   json_limit_count, interrupted, poll_result, enqueued,
                   stop_queue, return_code_queue, reported>>

\* poll, lines 217-220: process_thread.is_alive()
PollAlive ==
    /\ mpc = "alive"
    /\ IF wpc # "dead"
          THEN /\ poll_result' = PollNone
               /\ mpc' = "body"
               /\ UNCHANGED stop_caller
          ELSE /\ mpc' = "stop_put"
               /\ stop_caller' = "poll"
               /\ UNCHANGED poll_result
    /\ UNCHANGED <<notdecoder, procvars, workervars, rc, sensors, sensor_name_ids,
                   sensor_order, sent_block,
                   json_count, json_limit_count, interrupted, dequeued,
                   applied, json_queue, enqueued, stop_queue,
                   return_code_queue, reported>>

\* stop, line 227: stop_queue.put(None)
StopPut ==
    /\ mpc = "stop_put"
    /\ stop_queue' = stop_queue + 1
    /\ mpc' = "stop_join"
    /\ UNCHANGED <<notdecoder, procvars, workervars, rc, sensors, sensor_name_ids,
                   sensor_order, sent_block,
                   stop_caller, json_count, json_limit_count, interrupted,
                   dequeued, applied, poll_result, json_queue, enqueued,
                   return_code_queue, reported>>

\* StopJoin with the status never taken from return_code_queue
StopJoinNoGet ==
    /\ mpc = "stop_join"
    /\ wpc = "dead"
    /\ rc' = Some(NoStatus)
    /\ mpc' = IF stop_caller = "poll" THEN "poll_ret" ELSE "finished"
    /\ UNCHANGED <<notdecoder, procvars, workervars, sensors, sensor_name_ids,
                   sensor_order, sent_block,
                   stop_caller, json_count, json_limit_count, interrupted,
                   dequeued, applied, poll_result, json_queue, enqueued,
                   stop_queue, return_code_queue, reported>>

\* stop, lines 228-232: join() returns once the thread has ended, then rc is
\* taken from return_code_queue, or is -1 when that queue is empty
StopJoin ==
    /\ mpc = "stop_join"
    /\ wpc = "dead"
    /\ IF return_code_queue = <<>>
          THEN /\ rc' = Some(NoStatus)
               /\ UNCHANGED return_code_queue
          ELSE /\ rc' = Some(Head(return_code_queue))
               /\ return_code_queue' = Tail(return_code_queue)
    /\ mpc' = IF stop_caller = "poll" THEN "poll_ret" ELSE "finished"
    /\ UNCHANGED <<notdecoder, procvars, workervars, sensors, sensor_name_ids,
                   sensor_order, sent_block,
                   stop_caller, json_count, json_limit_count, interrupted,
                   dequeued, applied, poll_result, json_queue, enqueued,
                   stop_queue, reported>>

\* poll, line 221: return self.rc, which ends the loop of main (line 288)
PollReturn ==
    /\ mpc = "poll_ret"
    /\ poll_result' = PollStatus(rc[1])
    /\ mpc' = "finished"
    /\ UNCHANGED <<notdecoder, procvars, workervars, rc, sensors, sensor_name_ids,
                   sensor_order, sent_block,
                   stop_caller, json_count, json_limit_count, interrupted,
                   dequeued, applied, json_queue, enqueued, stop_queue,
                   return_code_queue, reported>>

\* int(v * 100) of line 82, for the values of the model (all far inside the
\* range of format 'i')
IntTimes100(v) ==
    IF v.num >= 0 THEN (v.num * 100) \div v.den
    ELSE 0 - (((0 - v.num) * 100) \div v.den)

RECURSIVE PackInts(_)
PackInts(ns) ==
    IF ns = <<>> THEN <<>> ELSE PackI32(Head(ns)) \o PackInts(Tail(ns))

\* Sensor.construct_packet, lines 75-76: the instance after the call
ConstructPacket(sensor) == [sensor EXCEPT !.updated = FALSE]

\* Sensor.construct_packet, lines 75-90: the bytes returned; line 76 has
\* cleared self.updated when line 88 reads it
ConstructPacketBytes(sensor) ==
    LET cleared == ConstructPacket(sensor)
        data_vals == [k \in 1..Len(cleared.vals) |-> IntTimes100(cleared.vals[k])]
    IN  IF IsU8(cleared.sensor_id) /\ IsU8(Len(data_vals))
           THEN Packed(<<cleared.sensor_id,
                         IF cleared.updated THEN 1 ELSE 0,
                         Len(data_vals)>> \o PackInts(data_vals))
           ELSE PackError("struct.error")

RECURSIVE ConcatBytes(_)
ConcatBytes(packets) ==
    IF packets = <<>> THEN <<>>
    ELSE Head(packets).bytes \o ConcatBytes(Tail(packets))

\* line 289 with every sensor taken, updated or not
UpdatedSensorsAll(sens, order) == order

\* line 289: the keys of the updated sensors, in the order of the dict
UpdatedSensors(sens, order) == SelectSeq(order, LAMBDA n : sens[n].updated)

\* main, lines 289-299: a packet is built for every updated sensor and their
\* concatenation is sent; a struct.error of construct_packet is caught
\* nowhere and ends main with the flags cleared up to the sensor that failed
\* (lines 305-311 send the pitch and roll of "Game Rotation Vector", whose two
\* values 0.5 and 0.25 encode; they change nothing the model holds)
MainBody ==
    /\ mpc = "body"
    /\ LET updated_sensors == UpdatedSensors(sensors, sensor_order)
           packets == [k \in 1..Len(updated_sensors) |->
                         ConstructPacketBytes(sensors[updated_sensors[k]])]
           failed == {k \in 1..Len(packets) : packets[k].err # "none"}
           last == IF failed = {} THEN Len(packets)
                   ELSE CHOOSE k \in failed : \A j \in failed : k <= j
           built == {updated_sensors[k] : k \in 1..last}
       IN  /\ sensors' = [n \in DOMAIN sensors |->
                            IF n \in built THEN ConstructPacket(sensors[n])
                                           ELSE sensors[n]]
           /\ IF failed # {}
                 THEN mpc' = "crashed" /\ UNCHANGED sent_block
                 ELSE /\ mpc' = "poll"
                      /\ sent_block' = IF updated_sensors # <<>>
                                          THEN Some(ConcatBytes(packets))
                                          ELSE sent_block
    /\ UNCHANGED <<notdecoder, procvars, workervars, rc, sensor_name_ids,
                   sensor_order, stop_caller, json_count, json_limit_count,
                   interrupted, dequeued, applied, poll_result, json_queue,
                   enqueued, stop_queue, return_code_queue, reported>>

(***************************************************************************)
(* The records poll applies when the worker's queue is left out: JSON      *)
(* objects of up to MaxItems members.                                      *)
(***************************************************************************)
MaxItems == 2

\* a name of the seeded table and two names it does not hold
SensorNames == {"3-axis Gyroscope", "Light", "Pressure"}

\* "values": [0.5, 0.25] and "values": [-1.5]
SensorValues == {<<Float(1, 2), Float(1, 4)>>, <<Float(0 - 3, 2)>>}

\* a member with or without the key "values"
SensorItems ==
    [name : SensorNames, values : {None} \cup {Some(v) : v \in SensorValues}]

\* the members of a JSON object have distinct names
SensorRecords ==
    {r \in UNION {[1..n -> SensorItems] : n \in 1..MaxItems} :
        \A i \in 1..Len(r) : \A j \in 1..Len(r) : i # j => r[i].name # r[j].name}

\* poll, lines 203-213, on one record: the call that finds the record in the
\* queue and returns None
PollRecord(record) ==
    /\ mpc = "poll"
    /\ LET st == ApplyItems([ids |-> sensor_name_ids, sensors |-> sensors,
                             order |-> sensor_order], record)
       IN  /\ sensors' = st.sensors
           /\ sensor_name_ids' = st.ids
           /\ sensor_order' = st.order
    /\ mpc' = "body"
    /\ UNCHANGED <<notdecoder, procvars, workervars, rc, sent_block, stop_caller,
                   json_count, json_limit_count, interrupted, dequeued,
                   applied, poll_result, json_queue, enqueued, stop_queue,
                   return_code_queue, reported>>

(***************************************************************************)
(* A long run: the subprocess names one sensor after another that the      *)
(* table does not hold, and may report a reading of 256 values.            *)
(***************************************************************************)
\* how many names the table is let to hold
MaxNames == 256

Digit(d) ==
    CASE d = 0 -> "0" [] d = 1 -> "1" [] d = 2 -> "2" [] d = 3 -> "3"
      [] d = 4 -> "4" [] d = 5 -> "5" [] d = 6 -> "6" [] d = 7 -> "7"
      [] d = 8 -> "8" [] d = 9 -> "9"

\* the name of the k-th sensor of the stream: "Sensor 004", "Sensor 005", ...
NewName(k) ==
    "Sensor " \o Digit(k \div 100) \o Digit((k \div 10) % 10) \o Digit(k % 10)

\* "values": a list of 256 numbers
LongValues == [k \in 1..256 |-> Float(1, 2)]

\* poll on a record whose one member is a sensor not seen before
PollNewName ==
    /\ Cardinality(DOMAIN sensor_name_ids) < MaxNames
    /\ PollRecord(<<[name |-> NewName(Cardinality(DOMAIN sensor_name_ids) + 1),
                     values |-> Some(<<Float(1, 2)>>)]>>)

\* poll on a record that gives the gyroscope 256 values
PollLongValues ==
    PollRecord(<<[name |-> "3-axis Gyroscope", values |-> Some(LongValues)]>>)

\* main, lines 314-316: KeyboardInterrupt raised anywhere inside the try
\* block; the handler calls process_decoder.stop()
InTry == mpc \in {"poll", "drain", "alive", "stop_put", "stop_join", "poll_ret", "body"}

KeyboardInterrupt ==
    /\ InTry
    /\ ~interrupted
    /\ interrupted' = TRUE
    /\ stop_caller' = "handler"
    /\ mpc' = "stop_put"
    /\ UNCHANGED <<notdecoder, procvars, workervars, rc, sensors, sensor_name_ids,
                   sensor_order, sent_block,
                   json_count, json_limit_count, dequeued, applied,
                   poll_result, json_queue, enqueued, stop_queue,
                   return_code_queue, reported>>

(***************************************************************************)
(* Text.  A str is the sequence of its characters, so that split, strip,   *)
(* replace and int work on the characters as Python's do.                  *)
(***************************************************************************)
NL == "\n"

RECURSIVE SplitAcc(_, _, _, _)
SplitAcc(s, sep, cur, acc) ==
    IF s = <<>> THEN Append(acc, cur)
    ELSE IF Head(s) = sep
            THEN SplitAcc(Tail(s), sep, <<>>, Append(acc, cur))
            ELSE SplitAcc(Tail(s), sep, Append(cur, Head(s)), acc)

\* str.split(sep): always at least one piece
Split(s, sep) == SplitAcc(s, sep, <<>>, <<>>)

\* str.splitlines(): no empty last piece after a final line break
SplitLines(text) ==
    LET parts == Split(text, NL)
    IN  IF parts[Len(parts)] = <<>> THEN SubSeq(parts, 1, Len(parts) - 1)
                                    ELSE parts

RECURSIVE LStrip(_)
LStrip(s) == IF s # <<>> /\ Head(s) = " " THEN LStrip(Tail(s)) ELSE s

RECURSIVE RStrip(_)
RStrip(s) ==
    IF s # <<>> /\ s[Len(s)] = " " THEN RStrip(SubSeq(s, 1, Len(s) - 1)) ELSE s

\* str.strip()
Strip(s) == RStrip(LStrip(s))

\* str.replace(c, '')
RemoveChar(s, c) == SelectSeq(s, LAMBDA x : x # c)

DigitChars == {"0", "1", "2", "3", "4", "5", "6", "7", "8", "9"}

DigitVal(c) ==
    CASE c = "0" -> 0 [] c = "1" -> 1 [] c = "2" -> 2 [] c = "3" -> 3
      [] c = "4" -> 4 [] c = "5" -> 5 [] c = "6" -> 6 [] c = "7" -> 7
      [] c = "8" -> 8 [] c = "9" -> 9

RECURSIVE DigitsVal(_)
DigitsVal(s) ==
    IF s = <<>> THEN 0
    ELSE 10 * DigitsVal(SubSeq(s, 1, Len(s) - 1)) + DigitVal(s[Len(s)])

AllDigits(s) == s # <<>> /\ \A i \in 1..Len(s) : s[i] \in DigitChars

\* int(s) succeeds: surrounding blanks are ignored, the rest is digits
IsInt(s) == AllDigits(Strip(s))

\* int(s)
IntVal(s) == DigitsVal(Strip(s))

\* float(s) succeeds: digits with at most one point among them
IsFloat(s) ==
    LET parts == Split(Strip(s), ".")
    IN  /\ Len(parts) <= 2
        /\ \A i \in 1..Len(parts) : parts[i] = <<>> \/ AllDigits(parts[i])
        /\ \E i \in 1..Len(parts) : parts[i] # <<>>

RECURSIVE Pow10(_)
Pow10(n) == IF n = 0 THEN 1 ELSE 10 * Pow10(n - 1)

\* float(s) as the fraction num / den
FloatVal(s) ==
    LET parts == Split(Strip(s), ".")
        frac == IF Len(parts) = 2 THEN parts[2] ELSE <<>>
    IN  [num |-> DigitsVal(parts[1] \o frac), den |-> Pow10(Len(frac))]

\* 180.0 / 2**31, in lowest terms
Semi2Deg == [num |-> 45, den |-> 536870912]

Fixed == <<"f", "i", "x", "e", "d">>
Semi2DegWord == <<"s", "e", "m", "i", "2", "d", "e", "g">>

(***************************************************************************)
(* SignalDefinition.from_csv_line: the definition, or the error raised.    *)
(***************************************************************************)
CsvWords(line) ==
    LET parts == Split(line, ",")
    IN  [i \in 1..Len(parts) |-> Strip(parts[i])]

NoDef == [cat_id |-> 0, sub_id |-> 0, name |-> <<>>, unit |-> <<>>,
          sig_type |-> <<>>, timeout_msec |-> 0, resolution |-> [num |-> 0, den |-> 1]]

CsvError(e) == [err |-> e, def |-> NoDef]

FromCsvLine(line) ==
    LET words == CsvWords(line)
    IN  IF Len(words) # 7 THEN CsvError("MalformedLine")
        ELSE IF ~IsInt(words[1]) \/ ~IsInt(words[2]) \/ ~IsInt(words[6])
                THEN CsvError("InvalidLiteral")
        ELSE IF words[7] # Semi2DegWord /\ ~IsFloat(words[7])
                THEN CsvError("InvalidLiteral")
        ELSE IF words[5] # Fixed THEN CsvError("UnsupportedType")
        ELSE [err |-> "none",
              def |-> [cat_id |-> IntVal(words[1]),
                       sub_id |-> IntVal(words[2]),
                       name |-> words[3],
                       unit |-> words[4],
                       sig_type |-> words[5],
                       timeout_msec |-> IntVal(words[6]),
                       resolution |-> IF words[7] = Semi2DegWord
                                         THEN Semi2Deg
                                         ELSE FloatVal(words[7])]]

(***************************************************************************)
(* SignalList.__init__.                                                    *)
(***************************************************************************)
\* LineStep with first_line cleared by whatever line comes first, comments
\* included
LineStepAnyFirst(st, line) ==
    IF line = <<>> THEN [st EXCEPT !.outcome = "IndexError"]
    ELSE IF line[1] = "#" THEN [st EXCEPT !.first_line = FALSE]
    ELSE IF st.first_line
            THEN IF IsInt(RemoveChar(line, ","))
                    THEN [st EXCEPT !.version = Some(IntVal(RemoveChar(line, ","))),
                                    !.first_line = FALSE]
                    ELSE [st EXCEPT !.outcome = "InvalidLiteral"]
    ELSE LET r == FromCsvLine(line)
         IN  IF r.err # "none" THEN [st EXCEPT !.outcome = r.err]
             ELSE IF r.def.name \in DOMAIN st.def_list
                     THEN [st EXCEPT !.outcome = "DuplicateName"]
             ELSE [st EXCEPT !.def_list = @ @@ (r.def.name :> r.def)]

\* lines 45-61, one pass of the loop over the lines: st holds first_line,
\* version, def_list and outcome ("pending" while nothing was raised)
LineStep(st, line) ==
    IF line = <<>> THEN [st EXCEPT !.outcome = "IndexError"]
    ELSE IF line[1] = "#" THEN st
    ELSE IF st.first_line
            THEN IF IsInt(RemoveChar(line, ","))
                    THEN [st EXCEPT !.version = Some(IntVal(RemoveChar(line, ","))),
                                    !.first_line = FALSE]
                    ELSE [st EXCEPT !.outcome = "InvalidLiteral"]
    ELSE LET r == FromCsvLine(line)
         IN  IF r.err # "none" THEN [st EXCEPT !.outcome = r.err]
             ELSE IF r.def.name \in DOMAIN st.def_list
                     THEN [st EXCEPT !.outcome = "DuplicateName"]
             ELSE [st EXCEPT !.def_list = @ @@ (r.def.name :> r.def)]

\* HasDuplicateIds with sub_id compared to the other definition's cat_id
HasDuplicateIdsTypo(defs) ==
    \E key_i \in DOMAIN defs : \E key_j \in DOMAIN defs :
        /\ key_i # key_j
        /\ defs[key_i].cat_id = defs[key_j].cat_id
        /\ defs[key_i].sub_id = defs[key_j].cat_id

\* lines 64-73: two keys whose definitions have the same ids
HasDuplicateIds(defs) ==
    \E key_i \in DOMAIN defs : \E key_j \in DOMAIN defs :
        /\ key_i # key_j
        /\ defs[key_i].cat_id = defs[key_j].cat_id
        /\ defs[key_i].sub_id = defs[key_j].sub_id

\* lines 33-39: a str is a file name whose text is read; an object whose type
\* is exactly io.TextIOBase has read() called, which that class does not
\* support; anything else (io.StringIO and open files are subclasses) raises
LoadOpen ==
    /\ lpc = "open"
    /\ CASE source_kind = "str" ->
              /\ lines' = SplitLines(data)
              /\ lpc' = "loop"
              /\ UNCHANGED outcome
         [] source_kind = "TextIOBase" ->
              /\ outcome' = "UnsupportedOperation"
              /\ lpc' = "done"
              /\ UNCHANGED lines
         [] OTHER ->
              /\ outcome' = "SourceRejected"
              /\ lpc' = "done"
              /\ UNCHANGED lines
    /\ UNCHANGED <<notloader, source_kind, data, idx, first_line, version, def_list,
                   query, got>>

LoadLine ==
    /\ lpc = "loop"
    /\ idx <= Len(lines)
    /\ LET st == LineStep([first_line |-> first_line, version |-> version,
                           def_list |-> def_list, outcome |-> outcome],
                          lines[idx])
       IN  /\ first_line' = st.first_line
           /\ version' = st.version
           /\ def_list' = st.def_list
           /\ outcome' = st.outcome
           /\ IF st.outcome = "pending"
                 THEN idx' = idx + 1 /\ lpc' = lpc
                 ELSE idx' = idx /\ lpc' = "done"
    /\ UNCHANGED <<notloader, source_kind, data, lines, query, got>>

LoadDupCheck ==
    /\ lpc = "loop"
    /\ idx > Len(lines)
    /\ outcome' = IF HasDuplicateIds(def_list) THEN "DuplicateId" ELSE "ok"
    /\ lpc' = "done"
    /\ UNCHANGED <<notloader, source_kind, data, lines, idx, first_line, version,
                   def_list, query, got>>

(***************************************************************************)
(* SignalList.get_definition (lines 75-86) on a registry that was built.   *)
(***************************************************************************)
\* the names a caller asks for: the two names of the schema lines, a name
\* no line has, and a name with the blanks a line has around it
QueryNames == {<<"a">>, <<"b">>, <<"c">>, <<" ", "a", " ">>}

\* a lookup that takes the entry out of the registry (dict.pop)
GetDefinitionPop(name) ==
    /\ lpc = "done"
    /\ outcome = "ok"
    /\ query' = Some(name)
    /\ IF name \in DOMAIN def_list
          THEN /\ got' = Some(def_list[name])
               /\ def_list' = [n \in DOMAIN def_list \ {name} |-> def_list[n]]
          ELSE /\ got' = None
               /\ def_list' = def_list
    /\ UNCHANGED <<notloader, source_kind, data, lpc, lines, idx, first_line,
                   version, outcome>>

GetDefinition(name) ==
    /\ lpc = "done"
    /\ outcome = "ok"
    /\ query' = Some(name)
    /\ got' = IF name \in DOMAIN def_list THEN Some(def_list[name]) ELSE None
    /\ UNCHANGED <<notloader, source_kind, data, lpc, lines, idx, first_line,
                   version, def_list, outcome>>

(***************************************************************************)
(* Schema texts: up to MaxSchemaLines lines of SchemaLines, joined by line *)
(* breaks (a text whose last line is the empty one ends in a line break).  *)
(***************************************************************************)
MaxSchemaLines == 3

\* "#c": a comment
LineComment == <<"#", "c">>
\* "1,0,0": the version line
LineVersion == <<"1", ",", "0", ",", "0">>
\* "": an empty line
LineEmpty == <<>>
\* "1,2,a,u,fixed,9,1": signal a with ids (1, 2)
LineA == <<"1", ",", "2", ",", "a", ",", "u", ",", "f", "i", "x", "e", "d", ",", "9", ",", "1">>
\* "1,2,b,u,fixed,9,0.5": signal b with the ids of a
LineB == <<"1", ",", "2", ",", "b", ",", "u", ",", "f", "i", "x", "e", "d", ",", "9", ",", "0", ".", "5">>
\* "3,4, a ,u, fixed ,9,semi2deg": a second signal a, padded fields, ids (3, 4)
LineA2 == <<"3", ",", "4", ",", " ", "a", " ", ",", "u", ",", " ", "f", "i", "x", "e", "d", " ", ",", "9", ",", "s", "e", "m", "i", "2", "d", "e", "g">>
\* "3,4,b,u,xx,9,1": kind xx
LineKind == <<"3", ",", "4", ",", "b", ",", "u", ",", "x", "x", ",", "9", ",", "1">>
\* "z,4,b,u,xx,9,1": kind xx and an id that is no number
LineKindId == <<"z", ",", "4", ",", "b", ",", "u", ",", "x", "x", ",", "9", ",", "1">>
\* "3,4,b,u,fixed,9": six fields
LineSix == <<"3", ",", "4", ",", "b", ",", "u", ",", "f", "i", "x", "e", "d", ",", "9">>

SchemaLines == {LineComment, LineVersion, LineEmpty, LineA, LineB, LineA2, LineKind, LineKindId, LineSix}

RECURSIVE JoinLines(_)
JoinLines(ls) ==
    IF ls = <<>> THEN <<>>
    ELSE IF Len(ls) = 1 THEN ls[1]
    ELSE ls[1] \o <<NL>> \o JoinLines(Tail(ls))

SchemaTexts ==
    {JoinLines(ls) : ls \in UNION {[1..n -> SchemaLines] : n \in 0..MaxSchemaLines}}

SourceKinds == {"str", "StringIO", "TextIOBase"}

\* the constructor has not run, or has run and built a registry
LoaderStart ==
    /\ lpc = "open" /\ lines = <<>> /\ idx = 1 /\ first_line = TRUE
    /\ version = None /\ def_list = <<>> /\ outcome = "pending"
    /\ query = None /\ got = None

LoaderDone ==
    /\ source_kind = "str" /\ data = <<>>
    /\ lpc = "done" /\ lines = <<>> /\ idx = 1 /\ first_line = TRUE
    /\ version = None /\ def_list = <<>> /\ outcome = "ok"
    /\ query = None /\ got = None

(***************************************************************************)
(* The decoder right after ProcessSensorDecoder.__init__ (lines 170-180).  *)
(***************************************************************************)
DecoderStart ==
    /\ proc = "unstarted" /\ proc_rc = 0 /\ pipe = <<>> /\ written = 0
    /\ wpc = "start" /\ w_rc = None /\ json_str_list = None
    /\ json_queue = <<>> /\ stop_queue = 0 /\ return_code_queue = <<>>
    /\ rc = None /\ sensors = <<>> /\ sensor_name_ids = SeedSensorIds
    /\ sensor_order = <<>> /\ sent_block = None
    /\ mpc = "poll" /\ stop_caller = "poll"
    /\ json_count = 0 /\ json_limit_count = 0 /\ interrupted = FALSE
    /\ dequeued = 0 /\ enqueued = 0 /\ applied = 0
    /\ poll_result = PollPending /\ reported = None

(***************************************************************************)
(* efis_packet_format.py: GenericPacket and AnalogPacket.                  *)
(***************************************************************************)
\* x * y + z <= bound for naturals, forming no product beyond bound
SumLE(x, y, z, bound) ==
    /\ z <= bound
    /\ x = 0 \/ y <= bound \div x
    /\ x * y <= bound - z

\* the part of the quotient's magnitude that the remainder gives, rounded
\* away from zero
QuotientLowCeil(rem, bh, bl, c) == rem * bh + ((rem * bl) + c - 1) \div c

\* the part of the quotient's magnitude that the remainder gives: with
\* b = bh * c + bl, floor(rem * b / c)
QuotientLow(rem, bh, bl, c) == rem * bh + (rem * bl) \div c

IntResult(n) == [err |-> "none", over |-> FALSE, n |-> n]
IntTooBig == [err |-> "none", over |-> TRUE, n |-> 0]
IntError(e) == [err |-> e, over |-> FALSE, n |-> 0]

\* line 300: int(data_input / self.signal_def.resolution).  The quotient of
\* v = v.num / v.den by r = r.num / r.den has magnitude a * b / c with
\* a = |v.num|, b = r.den, c = v.den * r.num; int() drops its fraction.
\* Python's int has no width: over says the result is outside IntMin..IntMax.
IntOfQuotient(v, r) ==
    IF r.num = 0 THEN IntError("ZeroDivisionError")
    ELSE IF v.den = 0
            THEN IntError(IF v.num = 0 THEN "ValueError" ELSE "OverflowError")
    ELSE LET a == IF v.num < 0 THEN 0 - v.num ELSE v.num
             b == r.den
             c == v.den * r.num
             whole == a \div c
             low == QuotientLow(a % c, b \div c, b % c, c)
         IN  IF v.num >= 0
                THEN IF SumLE(whole, b, low, IntMax)
                        THEN IntResult(whole * b + low)
                        ELSE IntTooBig
             ELSE IF whole = 0 /\ low = 0 THEN IntResult(0)
             ELSE IF low >= 1
                THEN IF SumLE(whole, b, low - 1, IntMax)
                        THEN IntResult((0 - (whole * b + (low - 1))) - 1)
                        ELSE IntTooBig
             ELSE IF SumLE(whole - 1, b, b - 1, IntMax)
                        THEN IntResult((0 - ((whole - 1) * b + (b - 1))) - 1)
                        ELSE IntTooBig

\* lines 228-249 with ts = None: struct.pack('!BIBB', ...); the clock reading
\* is datetime.utcnow().microsecond
CreateNetworkHeader(dev, def, ts) ==
    IF IsU8(dev) /\ ts >= 0 /\ IsU8(def.cat_id) /\ IsU8(def.sub_id)
       THEN Packed(<<dev>> \o BytesBE(ts) \o <<def.cat_id, def.sub_id>>)
       ELSE PackError("struct.error")

\* _create_data_bytes that packs the nearest value of the range when the
\* quotient is outside it
CreateDataBytesClamp(def, v) ==
    LET q == IntOfQuotient(v, def.resolution)
    IN  IF q.err # "none" THEN PackError(q.err)
        ELSE IF q.over THEN Packed(PackI32(IF v.num < 0 THEN IntMin ELSE IntMax))
        ELSE Packed(PackI32(q.n))

\* lines 292-300: AnalogPacket._create_data_bytes
CreateDataBytes(def, v) ==
    LET q == IntOfQuotient(v, def.resolution)
    IN  IF q.err # "none" THEN PackError(q.err)
        ELSE IF q.over THEN PackError("struct.error")
        ELSE Packed(PackI32(q.n))

\* a checksum that is computed: the sum of the bytes, modulo 256
RECURSIVE SumBytes(_)
SumBytes(ba) == IF ba = <<>> THEN 0 ELSE (Head(ba) + SumBytes(Tail(ba))) % 256

CalculateChecksumSum(ba) == <<SumBytes(ba)>>

\* lines 261-269: struct.pack('!B', 0)
CalculateChecksum(ba) == <<0>>

\* lines 271-283
CreatePacketWithData(dev, def, v, ts) ==
    LET header == CreateNetworkHeader(dev, def, ts)
        data_bytes == CreateDataBytes(def, v)
    IN  IF header.err # "none" THEN header
        ELSE IF data_bytes.err # "none" THEN data_bytes
        ELSE Packed(header.bytes \o data_bytes.bytes
                      \o CalculateChecksum(header.bytes \o data_bytes.bytes))

(***************************************************************************)
(* What the encoder is applied to.                                         *)
(***************************************************************************)
\* "30,5,p,d,fixed,9,0.001": resolution 0.001
LinePitch == <<"3", "0", ",", "5", ",", "p", ",", "d", ",", "f", "i", "x", "e", "d", ",", "9", ",", "0", ".", "0", "0", "1">>
\* "300,5,w,u,fixed,9,1": a category id of more than a byte
LineWide == <<"3", "0", "0", ",", "5", ",", "w", ",", "u", ",", "f", "i", "x", "e", "d", ",", "9", ",", "1">>
\* "7,8,z,u,fixed,9,0": resolution 0
LineZero == <<"7", ",", "8", ",", "z", ",", "u", ",", "f", "i", "x", "e", "d", ",", "9", ",", "0">>

EncodeLines == {LineA, LineB, LineA2, LinePitch, LineWide, LineZero}

\* the definitions from_csv_line builds from these lines
SignalDefs == {FromCsvLine(l).def : l \in EncodeLines}

\* efis_packet_format.py line 15
PC_1_DEV_ID == 30

DevIds == {0, PC_1_DEV_ID, 255}

\* datetime.utcnow().microsecond: 0, 0x010203 and the largest
ClockReadings == {0, 66051, 999999}

\* data_input: 0, 1, -1, 1.5, -1.5, -12.345, 180, -180, the ends of the 'i'
\* range, 2^30 and -2^30, 3000000, NaN and infinity
DataInputs ==
    {Float(0, 1), Float(1, 1), Float(0 - 1, 1), Float(3, 2), Float(0 - 3, 2),
     Float(0 - 12345, 1000), Float(180, 1), Float(0 - 180, 1),
     Float(IntMax, 1), Float(0 - IntMax, 1),
     Float(1073741824, 1), Float(0 - 1073741824, 1),
     Float(3000000, 1), NaN, PosInf}

\* lines 207-226: AnalogPacket.from_signal_def(dev, d), d what
\* get_definition returned
FromSignalDef(dev, d) ==
    /\ epc = "bind"
    /\ IF d = None
          THEN /\ epc' = "failed"
               /\ bind_error' = "AttributeError"
               /\ UNCHANGED <<dev_from_id, signal_def>>
          ELSE IF d[1].sig_type # Fixed
          THEN /\ epc' = "failed"
               /\ bind_error' = "ValueError"
               /\ UNCHANGED <<dev_from_id, signal_def>>
          ELSE /\ epc' = "bound"
               /\ dev_from_id' = dev
               /\ signal_def' = d
               /\ UNCHANGED bind_error
    /\ UNCHANGED <<notencoder, encoded>>

\* a call of create_packet_with_data(data_input) at clock reading ts
Encode(v, ts) ==
    /\ epc = "bound"
    /\ LET r == CreatePacketWithData(dev_from_id, signal_def[1], v, ts)
           call == [data_input |-> v, timestamp_ms |-> ts, err |-> r.err,
                    packet |-> IF r.err = "none" THEN Some(r.bytes) ELSE None]
       IN  encoded' = IF Len(encoded) = 2 THEN <<encoded[2], call>>
                      ELSE Append(encoded, call)
    /\ UNCHANGED <<notencoder, epc, dev_from_id, signal_def, bind_error>>

\* no packet object is in use
EncoderIdle ==
    /\ epc = "idle" /\ dev_from_id = 0 /\ signal_def = None
    /\ bind_error = "none" /\ encoded = <<>>

EncoderStart ==
    /\ epc = "bind" /\ dev_from_id = 0 /\ signal_def = None
    /\ bind_error = "none" /\ encoded = <<>>

(***************************************************************************)
(* xp_data_forwarder.py: the forwarding loop (lines 45-81).                *)
(*                                                                         *)
(* The schema file the links are bound to is not part of the sources; the  *)
(* links are bound here to definitions of the lines above.  Of the twelve  *)
(* links the model keeps four, in their order: one of another record id,   *)
(* one of record 17 that is no heading, and the two headings.              *)
(***************************************************************************)
\* lines 30-42 with XPlaneDataType.get_xp_data_type_list (xp_udp_dataparser.py
\* lines 29-90): name, dataref_id, dataref_num and the bound definition
xp_to_efis_links ==
    <<[name |-> "RPM", dataref_id |-> 37, dataref_num |-> 0,
       signal_def |-> FromCsvLine(LineA).def],
      [name |-> "Pitch", dataref_id |-> 17, dataref_num |-> 0,
       signal_def |-> FromCsvLine(LinePitch).def],
      [name |-> "HeadingTrue", dataref_id |-> 17, dataref_num |-> 2,
       signal_def |-> FromCsvLine(LineA2).def],
      [name |-> "HeadingMag", dataref_id |-> 17, dataref_num |-> 3,
       signal_def |-> FromCsvLine(LineB).def]>>

(***************************************************************************)
(* XPlaneDataReceiver.read_xplane_data (xp_udp_dataparser.py) on the bytes *)
(* of a datagram.  A datagram is a sequence of bytes 0..255.               *)
(***************************************************************************)
\* bytes[a:b] of Python for 0 <= a <= b: the slice ends where the bytes end
Slice(bytes, a, b) ==
    LET e == IF b > Len(bytes) THEN Len(bytes) ELSE b
    IN  IF a >= e THEN <<>> ELSE SubSeq(bytes, a + 1, e)

IsContinuation(b) == 128 <= b /\ b <= 191

\* bytes.decode('utf-8') succeeds: every character is a well-formed UTF-8
\* sequence (no overlong form, no surrogate, nothing above U+10FFFF)
RECURSIVE Utf8Valid(_)
Utf8Valid(bytes) ==
    IF bytes = <<>> THEN TRUE
    ELSE LET b1 == bytes[1]
             n == Len(bytes)
             cont(k) == k <= n /\ IsContinuation(bytes[k])
         IN  IF b1 < 128 THEN Utf8Valid(Tail(bytes))
             ELSE IF 194 <= b1 /\ b1 <= 223
                THEN cont(2) /\ Utf8Valid(Slice(bytes, 2, n))
             ELSE IF 224 <= b1 /\ b1 <= 239
                THEN /\ cont(2) /\ cont(3)
                     /\ b1 = 224 => bytes[2] >= 160
                     /\ b1 = 237 => bytes[2] <= 159
                     /\ Utf8Valid(Slice(bytes, 3, n))
             ELSE IF 240 <= b1 /\ b1 <= 244
                THEN /\ cont(2) /\ cont(3) /\ cont(4)
                     /\ b1 = 240 => bytes[2] >= 144
                     /\ b1 = 244 => bytes[2] <= 143
                     /\ Utf8Valid(Slice(bytes, 4, n))
             ELSE FALSE

\* 'DATA'.encode('utf-8')
HeaderParam == <<68, 65, 84, 65>>

\* struct.unpack('<I', b)[0] of four bytes, for values below 2^31 (the record
\* ids of X-Plane are below 256)
UnpackU32LE(b) == b[1] + 256 * b[2] + 65536 * b[3] + 16777216 * b[4]

RECURSIVE Pow2(_)
Pow2(n) == IF n = 0 THEN 1 ELSE 2 * Pow2(n - 1)

\* mant * 2^exp2 as a fraction in lowest terms
RECURSIVE Scaled(_, _)
Scaled(mant, exp2) ==
    IF exp2 >= 0 THEN Float(mant * Pow2(exp2), 1)
    ELSE IF mant % 2 = 0 THEN Scaled(mant \div 2, exp2 + 1)
    ELSE Float(mant, Pow2(0 - exp2))

\* struct.unpack('<f', b)[0]: the IEEE 754 single of four little-endian
\* bytes as the fraction it denotes (exactly the double Python returns);
\* defined for zero, infinities, NaN and the normal numbers whose numerator
\* and denominator are below 2^31
UnpackF32(b) ==
    LET negative == b[4] >= 128
        e == (b[4] % 128) * 2 + b[3] \div 128
        m == (b[3] % 128) * 65536 + b[2] * 256 + b[1]
        mag == Scaled(m + 8388608, e - 150)
    IN  IF e = 255 THEN (IF m # 0 THEN NaN
                         ELSE IF negative THEN Float(0 - 1, 0) ELSE PosInf)
        ELSE IF e = 0 /\ m = 0 THEN Float(0, 1)
        ELSE IF negative THEN Float(0 - mag.num, mag.den) ELSE mag

\* lines 240-251: the list stored for one record.  dataref is the slice of
\* line 233; the loop of line 244 runs len(dataref_bytes) // 4 times
DatarefData(dataref) ==
    LET dataref_byte_num == 4
        dataref_bytes == Slice(dataref, dataref_byte_num, Len(dataref))
    IN  [k \in 1..(Len(dataref_bytes) \div dataref_byte_num) |->
            UnpackF32(Slice(dataref, k * dataref_byte_num,
                            (k + 1) * dataref_byte_num))]

\* lines 220-257: the while loop over the records from record i on
RECURSIVE StoreDatarefs(_, _, _)
StoreDatarefs(dict, datarefs, i) ==
    LET dataref_len == 36
        start_index == i * dataref_len
        end_index == start_index + dataref_len - 1
        dataref == Slice(datarefs, start_index, end_index)
        dataref_id == UnpackU32LE(Slice(dataref, 0, 4))
    IN  IF ~(i * dataref_len < Len(datarefs)) THEN dict
        ELSE StoreDatarefs(
                [id \in DOMAIN dict \cup {dataref_id} |->
                    IF id = dataref_id THEN DatarefData(dataref) ELSE dict[id]],
                datarefs, i + 1)

\* lines 197-259, after a datagram was received: what the call does
\* ("None": a bare return, "True": return True, or the exception raised)
\* and the dictionary after it
ParseDatagram(dict, bytes) ==
    LET header_len == 5
        dataref_len == 36
        header == Slice(bytes, 0, Len(HeaderParam))
    IN  IF Len(bytes) <= header_len
           THEN [outcome |-> "None", dict |-> dict]
        ELSE IF (Len(bytes) - header_len) % dataref_len # 0
           THEN [outcome |-> "None", dict |-> dict]
        ELSE IF ~Utf8Valid(header)
           THEN [outcome |-> "UnicodeDecodeError", dict |-> dict]
        ELSE IF header # HeaderParam
           THEN [outcome |-> "None", dict |-> dict]
        ELSE [outcome |-> "True",
              dict |-> StoreDatarefs(dict, Slice(bytes, header_len, Len(bytes)), 0)]

\* the floats a record carries: 0, 190, 600, -190, 3000000, NaN and infinity
XpValues ==
    {Float(0, 1), Float(190, 1), Float(600, 1), Float(0 - 190, 1),
     Float(3000000, 1), NaN, PosInf}

\* the four bytes X-Plane sends for each of them (little-endian single)
F32Bytes(v) ==
    CASE v = Float(0, 1) -> <<0, 0, 0, 0>>
      [] v = Float(190, 1) -> <<0, 0, 62, 67>>
      [] v = Float(600, 1) -> <<0, 0, 22, 68>>
      [] v = Float(0 - 190, 1) -> <<0, 0, 62, 195>>
      [] v = Float(3000000, 1) -> <<0, 27, 55, 74>>
      [] v = NaN -> <<0, 0, 192, 127>>
      [] v = PosInf -> <<0, 0, 128, 127>>

\* the eight values of a record: 0 or 3000000 in the first place, one of the
\* floats in every other place
DatarefLists ==
    {[k \in 1..8 |-> IF k = 1 THEN first ELSE v] :
        first \in {Float(0, 1), Float(3000000, 1)}, v \in XpValues}

RECURSIVE FloatsBytes(_)
FloatsBytes(vs) ==
    IF vs = <<>> THEN <<>> ELSE F32Bytes(Head(vs)) \o FloatsBytes(Tail(vs))

\* one 36-byte record: the id (below 256) and the eight values
RecordBytes(id, vs) == <<id, 0, 0, 0>> \o FloatsBytes(vs)

\* the records of recs, by ascending id
RECURSIVE RecordsBytes(_)
RecordsBytes(recs) ==
    IF DOMAIN recs = {} THEN <<>>
    ELSE LET id == CHOOSE i \in DOMAIN recs : \A j \in DOMAIN recs : i <= j
         IN  RecordBytes(id, recs[id])
                \o RecordsBytes([j \in DOMAIN recs \ {id} |-> recs[j]])

\* a datagram of X-Plane: b'DATA', one more byte, and the records
DatagramOf(recs) == HeaderParam \o <<42>> \o RecordsBytes(recs)

\* what X-Plane puts in a datagram: records for some of the ids 17 and 37
DatagramRecords ==
    UNION {[ids -> DatarefLists] : ids \in (SUBSET {17, 37}) \ {{}}}

\* the valid datagrams
Datagrams == {DatagramOf(recs) : recs \in DatagramRecords}

\* datagrams read_xplane_data cannot read: empty, the header alone, a byte
\* that is no text alone, a payload of 10 bytes, the header b'DREF', and
\* headers that are not UTF-8 (b'\xffATA' and b'DAT\xc3')
UnreadableDatagrams ==
    LET record == RecordBytes(17, [k \in 1..8 |-> Float(190, 1)])
    IN  {<<>>,
         HeaderParam \o <<42>>,
         <<255>>,
         HeaderParam \o <<42>> \o Slice(record, 0, 10),
         <<68, 82, 69, 70, 42>> \o record,
         <<255, 65, 84, 65, 42>> \o record,
         <<68, 65, 84, 195, 42>> \o record}

\* v > 180 and v < -180 as Python compares floats: false for NaN
GreaterThan180(v) == IF v.den = 0 THEN v.num > 0 ELSE v.num > 180 * v.den
LessThanMinus180(v) ==
    IF v.den = 0 THEN v.num < 0 ELSE v.num < (0 - 180) * v.den

\* lines 64-71
HeadingNormalise(deg) ==
    LET d == IF GreaterThan180(deg)
                THEN (IF deg.den = 0 THEN deg
                      ELSE Float(deg.num - 360 * deg.den, deg.den))
                ELSE deg
    IN  IF GreaterThan180(d) THEN Float(180, 1)
        ELSE IF LessThanMinus180(d) THEN Float(0 - 180, 1)
        ELSE d

\* consecutive failed receives are counted up to this number
MaxErrors == 3

\* a failed receive without the "continue" of line 51
ReadXplaneDataErrorNoContinue ==
    /\ fpc = "read"
    /\ sent_links' = <<>>
    /\ fpc' = "links"
    /\ link_idx' = 1
    /\ socket_errors' = IF socket_errors < MaxErrors THEN socket_errors + 1
                        ELSE socket_errors
    /\ UNCHANGED <<notforwarder, dataref_dict, handed, fwd_error>>

\* lines 180-195 of xp_udp_dataparser.py and 47-51 of the forwarder:
\* recvfrom fails (timeout after 5 s, or another socket.error) and
\* read_xplane_data raises XPlaneDataError, which the loop catches: it
\* prints, and "continue" starts the next cycle
ReadXplaneDataError ==
    /\ fpc = "read"
    /\ sent_links' = <<>>
    /\ fpc' = "read"
    /\ link_idx' = 1
    /\ socket_errors' = IF socket_errors < MaxErrors THEN socket_errors + 1
                        ELSE socket_errors
    /\ UNCHANGED <<notforwarder, dataref_dict, handed, fwd_error>>

\* lines 47-51: a datagram is received and read_xplane_data stores its
\* records or returns without storing anything; its return value is not
\* looked at, the links follow.  An exception other than XPlaneDataError is
\* caught nowhere (line 80 catches KeyboardInterrupt only) and ends the
\* program
ReadXplaneData(dgram) ==
    /\ fpc = "read"
    /\ sent_links' = <<>>
    /\ LET parsed == ParseDatagram(dataref_dict, dgram)
       IN  /\ dataref_dict' = parsed.dict
           /\ IF parsed.outcome \in {"None", "True"}
                 THEN fpc' = "links" /\ fwd_error' = fwd_error
                 ELSE fpc' = "crashed" /\ fwd_error' = parsed.outcome
    /\ link_idx' = 1
    /\ socket_errors' = 0
    /\ UNCHANGED <<notforwarder, handed>>

\* lines 53-76: one pass of the for loop; an exception of the encoder is
\* caught nowhere (line 80 catches KeyboardInterrupt only) and ends the
\* program
ForwardLink(ts) ==
    /\ fpc = "links"
    /\ link_idx <= Len(xp_to_efis_links)
    /\ LET link == xp_to_efis_links[link_idx]
       IN  IF link.dataref_id \notin DOMAIN dataref_dict
              THEN /\ link_idx' = link_idx + 1
                   /\ UNCHANGED <<fpc, handed, sent_links, fwd_error>>
              ELSE LET raw == dataref_dict[link.dataref_id][link.dataref_num + 1]
                       value == IF link.name = "HeadingTrue" \/ link.name = "HeadingMag"
                                   THEN HeadingNormalise(raw)
                                   ELSE raw
                       packet == CreatePacketWithData(PC_1_DEV_ID, link.signal_def,
                                                      value, ts)
                   IN  /\ handed' = Some([name |-> link.name, raw |-> raw,
                                          data |-> value])
                       /\ IF packet.err # "none"
                             THEN /\ fpc' = "crashed"
                                  /\ fwd_error' = packet.err
                                  /\ UNCHANGED <<link_idx, sent_links>>
                             ELSE /\ sent_links' = Append(sent_links, link.name)
                                  /\ link_idx' = link_idx + 1
                                  /\ UNCHANGED <<fpc, fwd_error>>
    /\ UNCHANGED <<notforwarder, dataref_dict, socket_errors>>

\* line 78: time.sleep(0.01), then the next cycle
ForwardSleep ==
    /\ fpc = "links"
    /\ link_idx > Len(xp_to_efis_links)
    /\ fpc' = "read"
    /\ UNCHANGED <<notforwarder, link_idx, dataref_dict, handed, sent_links,
                   fwd_error, socket_errors>>

\* lines 80-83: Ctrl-C anywhere in the loop ends it; the socket is closed
ForwardInterrupt ==
    /\ fpc \in {"read", "links"}
    /\ fpc' = "stopped"
    /\ UNCHANGED <<notforwarder, link_idx, dataref_dict, handed, sent_links,
                   fwd_error, socket_errors>>

\* the forwarder is not running
ForwarderIdle ==
    /\ fpc = "idle" /\ link_idx = 1 /\ dataref_dict = <<>> /\ handed = None
    /\ sent_links = <<>> /\ fwd_error = "none" /\ socket_errors = 0

\* line 20: XPlaneDataReceiver() starts with an empty dictionary
ForwarderStart ==
    /\ fpc = "read" /\ link_idx = 1 /\ dataref_dict = <<>> /\ handed = None
    /\ sent_links = <<>> /\ fwd_error = "none" /\ socket_errors = 0

(***************************************************************************)
(* Sensor.__init__ run by several threads on the class table               *)
(* Sensor.sensor_name_ids.  The method takes no lock, so a thread can be   *)
(* switched out between any two of its reads and writes of the table.      *)
(***************************************************************************)
Threads == {1, 2}

\* line 45: if name not in self.sensor_name_ids
ThreadCheck(t) ==
    /\ tpc[t] = "check"
    /\ tpc' = [tpc EXCEPT ![t] = IF t_name[t] \in DOMAIN sensor_name_ids
                                    THEN "read_id" ELSE "iter"]
    /\ UNCHANGED <<notthreads, sensor_name_ids, t_name, t_size, max_id_val,
                   t_sensor_id>>

\* line 46: the iteration over self.sensor_name_ids.values() begins; the
\* iterator remembers the size of the dictionary
ThreadIterBegin(t) ==
    /\ tpc[t] = "iter"
    /\ t_size' = [t_size EXCEPT ![t] = Cardinality(DOMAIN sensor_name_ids)]
    /\ tpc' = [tpc EXCEPT ![t] = "max"]
    /\ UNCHANGED <<notthreads, sensor_name_ids, t_name, max_id_val, t_sensor_id>>

\* line 46: the iteration ends and max() is taken; a dictionary whose size
\* changed since the iteration began raises RuntimeError in the iterator
ThreadMax(t) ==
    /\ tpc[t] = "max"
    /\ IF Cardinality(DOMAIN sensor_name_ids) # t_size[t]
          THEN /\ tpc' = [tpc EXCEPT ![t] = "RuntimeError"]
               /\ UNCHANGED max_id_val
          ELSE /\ max_id_val' =
                     [max_id_val EXCEPT
                        ![t] = MaxOf({sensor_name_ids[n] : n \in DOMAIN sensor_name_ids})]
               /\ tpc' = [tpc EXCEPT ![t] = "store"]
    /\ UNCHANGED <<notthreads, sensor_name_ids, t_name, t_size, t_sensor_id>>

\* lines 47-48: self.sensor_name_ids[name] = max_id_val + 1, and the print
ThreadStore(t) ==
    /\ tpc[t] = "store"
    /\ sensor_name_ids' =
          [n \in DOMAIN sensor_name_ids \cup {t_name[t]} |->
              IF n = t_name[t] THEN max_id_val[t] + 1 ELSE sensor_name_ids[n]]
    /\ tpc' = [tpc EXCEPT ![t] = "read_id"]
    /\ UNCHANGED <<notthreads, t_name, t_size, max_id_val, t_sensor_id>>

\* line 51: self.sensor_id = self.sensor_name_ids[name]
ThreadReadId(t) ==
    /\ tpc[t] = "read_id"
    /\ t_sensor_id' = [t_sensor_id EXCEPT ![t] = sensor_name_ids[t_name[t]]]
    /\ tpc' = [tpc EXCEPT ![t] = "done"]
    /\ UNCHANGED <<notthreads, sensor_name_ids, t_name, t_size, max_id_val>>

\* no thread constructs a Sensor
ThreadsIdle ==
    /\ t_name = [t \in Threads |-> "3-axis Gyroscope"]
    /\ tpc = [t \in Threads |-> "idle"]
    /\ t_size = [t \in Threads |-> 0]
    /\ max_id_val = [t \in Threads |-> 0]
    /\ t_sensor_id = [t \in Threads |-> 0]

\* each thread is about to call Sensor(name)
ThreadsStart ==
    /\ t_name \in [Threads -> SensorNames]
    /\ tpc = [t \in Threads |-> "check"]
    /\ t_size = [t \in Threads |-> 0]
    /\ max_id_val = [t \in Threads |-> 0]
    /\ t_sensor_id = [t \in Threads |-> 0]

InitDecoder ==
    DecoderStart /\ LoaderDone /\ EncoderIdle /\ ForwarderIdle /\ ThreadsIdle

WorkerNext ==
    \/ \E ok \in BOOLEAN : WorkerStart(ok)
    \/ WorkerRead
    \/ WorkerStopCheck
    \/ WorkerPutRc

MainNext ==
    \/ \E limit \in 1..MaxLimit : PollEnter(limit)
    \/ PollDrain
    \/ PollAlive
    \/ StopPut
    \/ StopJoin
    \/ PollReturn
    \/ MainBody

ProcNext ==
    \/ \E line \in OutLines : ProcWrite(line)
    \/ \E code \in ExitCodes : ProcExit(code)

NextDecoder == WorkerNext \/ MainNext \/ ProcNext \/ KeyboardInterrupt

SpecDecoder == InitDecoder /\ [][NextDecoder]_vars

\* both threads are scheduled; the subprocess and the user are not obliged
\* to do anything
FairDecoder ==
    /\ SpecDecoder
    /\ WF_vars(WorkerNext)
    /\ WF_vars(MainNext)

(***************************************************************************)
(* SignalList(signal_file) applied to a schema text.                       *)
(***************************************************************************)
InitLoad ==
    /\ DecoderStart
    /\ source_kind \in SourceKinds
    /\ data \in SchemaTexts
    /\ LoaderStart
    /\ EncoderIdle
    /\ ForwarderIdle
    /\ ThreadsIdle

NextLoad ==
    \/ LoadOpen
    \/ LoadLine
    \/ LoadDupCheck
    \/ \E name \in QueryNames : GetDefinition(name)

SpecLoad == InitLoad /\ [][NextLoad]_vars

(***************************************************************************)
(* A packet object is bound to a device id and a definition, then encodes  *)
(* values.                                                                 *)
(***************************************************************************)
InitEncode ==
    DecoderStart /\ LoaderDone /\ EncoderStart /\ ForwarderIdle /\ ThreadsIdle

NextEncode ==
    \/ \E dev \in DevIds : \E d \in {None} \cup {Some(sd) : sd \in SignalDefs} :
          FromSignalDef(dev, d)
    \/ \E v \in DataInputs : \E ts \in ClockReadings : Encode(v, ts)

SpecEncode == InitEncode /\ [][NextEncode]_vars

(***************************************************************************)
(* The loop of main on records that reach poll directly: the sensor table  *)
(* and the sensor blocks under any sequence of observations.               *)
(***************************************************************************)
InitSensor ==
    DecoderStart /\ LoaderDone /\ EncoderIdle /\ ForwarderIdle /\ ThreadsIdle

NextSensor ==
    \/ \E record \in SensorRecords : PollRecord(record)
    \/ MainBody

SpecSensor == InitSensor /\ [][NextSensor]_vars

(***************************************************************************)
(* The loop of main on a long stream of new sensor names.                  *)
(***************************************************************************)
InitManyNames ==
    DecoderStart /\ LoaderDone /\ EncoderIdle /\ ForwarderIdle /\ ThreadsIdle

NextManyNames ==
    \/ PollNewName
    \/ PollLongValues
    \/ MainBody

SpecManyNames == InitManyNames /\ [][NextManyNames]_vars

(***************************************************************************)
(* The forwarding loop of xp_data_forwarder.py.                            *)
(***************************************************************************)
InitForward ==
    DecoderStart /\ LoaderDone /\ EncoderIdle /\ ForwarderStart /\ ThreadsIdle

NextForward ==
    \/ ReadXplaneDataError
    \/ \E dgram \in Datagrams \cup UnreadableDatagrams : ReadXplaneData(dgram)
    \/ \E ts \in ClockReadings : ForwardLink(ts)
    \/ ForwardSleep
    \/ ForwardInterrupt

SpecForward == InitForward /\ [][NextForward]_vars

(***************************************************************************)
(* Two threads construct Sensor objects at the same time.                  *)
(***************************************************************************)
InitThreads ==
    DecoderStart /\ LoaderDone /\ EncoderIdle /\ ForwarderIdle /\ ThreadsStart

NextThreads ==
    \E t \in Threads :
        \/ ThreadCheck(t)
        \/ ThreadIterBegin(t)
        \/ ThreadMax(t)
        \/ ThreadStore(t)
        \/ ThreadReadId(t)

SpecThreads == InitThreads /\ [][NextThreads]_vars

(***************************************************************************)
(* Claims about the decoder.                                               *)
(***************************************************************************)

\* C1: one call of poll dequeues at most json_limit_count records.
C1_PollBounded == dequeued <= json_limit_count

\* C2: no record is dropped: when the loop of main has ended because the
\* worker ended, every record the worker enqueued has been applied.
C2_NoRecordDropped ==
    (mpc = "finished" /\ ~interrupted) => applied = enqueued

\* C3: once stop() has put its request while the worker runs, the worker
\* eventually ends (having signalled the subprocess and reported a status),
\* so the join of stop() returns.
C3_StopEndsWorker == (stop_queue > 0 /\ wpc # "dead") ~> (wpc = "dead")

\* C4: stop() is idempotent: once a stop() has recorded rc, no later stop()
\* changes it.
C4_StopIdempotent == [][rc # None => rc' = rc]_vars

NonComment(ls) == SelectSeq(ls, LAMBDA l : l = <<>> \/ l[1] # "#")

SignalLines(ls) == IF NonComment(ls) = <<>> THEN <<>> ELSE Tail(NonComment(ls))

\* every signal line alone is a well-formed record and the version line is
\* an integer once its commas are deleted
WellFormed(ls) ==
    /\ NonComment(ls) # <<>>
    /\ IsInt(RemoveChar(NonComment(ls)[1], ","))
    /\ \A i \in 1..Len(SignalLines(ls)) :
          /\ SignalLines(ls)[i] # <<>>
          /\ FromCsvLine(SignalLines(ls)[i]).err = "none"

SignalDef(ls, i) == FromCsvLine(SignalLines(ls)[i]).def

SameName(ls) ==
    \E i \in 1..Len(SignalLines(ls)) : \E j \in 1..Len(SignalLines(ls)) :
        i < j /\ SignalDef(ls, i).name = SignalDef(ls, j).name

SameIds(ls) ==
    \E i \in 1..Len(SignalLines(ls)) : \E j \in 1..Len(SignalLines(ls)) :
        /\ i < j
        /\ SignalDef(ls, i).cat_id = SignalDef(ls, j).cat_id
        /\ SignalDef(ls, i).sub_id = SignalDef(ls, j).sub_id

\* the constructor run on a list of lines in one go
RECURSIVE RunLines(_, _)
RunLines(st, ls) ==
    IF ls = <<>> \/ st.outcome # "pending" THEN st
    ELSE RunLines(LineStep(st, Head(ls)), Tail(ls))

LoadResult(ls) ==
    LET st == RunLines([first_line |-> TRUE, version |-> None,
                        def_list |-> <<>>, outcome |-> "pending"], ls)
    IN  IF st.outcome # "pending" THEN st
        ELSE [st EXCEPT !.outcome =
                 IF HasDuplicateIds(st.def_list) THEN "DuplicateId" ELSE "ok"]

Loaded == lpc = "done" /\ source_kind = "str"

\* C6: a registry is produced only when all signal lines are records with
\* pairwise distinct names and pairwise distinct (cat_id, sub_id); a schema
\* of well-formed lines with two lines of one name ends in the duplicate-name
\* error, and one with distinct names and two lines of the same ids ends in
\* the duplicate-id error.
C6_NoDuplicates ==
    Loaded =>
        /\ outcome = "ok" =>
              /\ NonComment(lines) # <<>> => WellFormed(lines)
              /\ ~SameName(lines)
              /\ ~SameIds(lines)
        /\ (WellFormed(lines) /\ SameName(lines)) => outcome = "DuplicateName"
        /\ (WellFormed(lines) /\ ~SameName(lines) /\ SameIds(lines))
              => outcome = "DuplicateId"

C6_Witness ==
    /\ Loaded
    /\ outcome = "DuplicateId"
    /\ WellFormed(lines) /\ ~SameName(lines) /\ SameIds(lines)

\* C7: loading a schema text ends with a registry or with one of the four
\* schema errors, nothing else.
C7_FourKinds ==
    Loaded => outcome \in {"ok", "MalformedLine", "UnsupportedType",
                           "DuplicateName", "DuplicateId"}

\* C8: a text stream is accepted as a file name is: the constructor ends as
\* it ends for a file holding the same text.
C8_StreamAccepted ==
    (lpc = "done" /\ source_kind # "str")
        => outcome = LoadResult(SplitLines(data)).outcome

\* C9: comment lines contribute nothing (the constructor ends as it does on
\* the text without them), version is the integer of the first non-comment
\* line with its commas deleted ("1,0,0" gives 100), and the later
\* non-comment lines, and only they, become definitions.
C9_CommentsAndVersion ==
    (source_kind = "str" /\ lpc \in {"loop", "done"}) =>
        LET nc == NonComment(lines)
            ref == LoadResult(nc)
        IN  /\ lpc = "done" =>
                 /\ outcome = ref.outcome
                 /\ version = ref.version
                 /\ def_list = ref.def_list
            /\ version # None =>
                 /\ nc # <<>>
                 /\ version = Some(IntVal(RemoveChar(nc[1], ",")))
                 /\ nc[1] = LineVersion => version = Some(100)
            /\ \A n \in DOMAIN def_list :
                 \E i \in 1..Len(SignalLines(lines)) :
                    def_list[n] = SignalDef(lines, i)
            /\ outcome = "ok" =>
                 Cardinality(DOMAIN def_list) = Len(SignalLines(lines))

C9_Witness ==
    /\ Loaded
    /\ outcome = "ok"
    /\ Len(lines) = 3
    /\ lines[1] = LineComment
    /\ lines[2] = LineVersion
    /\ version = Some(100)
    /\ DOMAIN def_list = {<<"a">>}

\* the step that reads a signal line
SignalStep ==
    /\ lpc = "loop"
    /\ idx <= Len(lines)
    /\ ~first_line
    /\ lines[idx] # <<>>
    /\ lines[idx][1] # "#"

\* C10: a line of other than 7 fields is rejected as malformed, a 7-field
\* line of another kind as unsupported type, a line is accepted only with 7
\* fields and kind fixed, and every definition has kind fixed.
C10_KindUnsupported ==
    [][SignalStep =>
         LET words == CsvWords(lines[idx])
         IN  /\ Len(words) # 7 => outcome' = "MalformedLine"
             /\ (Len(words) = 7 /\ words[5] # Fixed)
                   => outcome' = "UnsupportedType"
             /\ outcome' = "pending" => (Len(words) = 7 /\ words[5] = Fixed)
             /\ \A n \in DOMAIN def_list' : def_list'[n].sig_type = Fixed
      ]_vars

\* the fields of a signal line, trimmed, as the values a definition holds
LineFields(line) ==
    LET w == CsvWords(line)
    IN  [cat_id |-> IntVal(w[1]), sub_id |-> IntVal(w[2]), name |-> w[3],
         unit |-> w[4], sig_type |-> w[5], timeout_msec |-> IntVal(w[6]),
         resolution |-> IF w[7] = <<"s", "e", "m", "i", "2", "d", "e", "g">>
                           THEN [num |-> 45, den |-> 536870912]
                           ELSE FloatVal(w[7])]

\* the signal lines that carry the name
LinesNamed(ls, name) ==
    {i \in 1..Len(SignalLines(ls)) : CsvWords(SignalLines(ls)[i])[3] = name}

\* C11: after a successful load, get_definition returns for the name of every
\* signal line a definition whose seven fields are the trimmed fields of that
\* line (resolution 180/2^31 for semi2deg), returns None for a name no line
\* has, and leaves the registry as the load built it.
C11_GetDefinition ==
    (Loaded /\ outcome = "ok") =>
        /\ def_list = LoadResult(lines).def_list
        /\ \A i \in 1..Len(SignalLines(lines)) :
              LET f == LineFields(SignalLines(lines)[i])
              IN  f.name \in DOMAIN def_list /\ def_list[f.name] = f
        /\ query # None =>
              IF LinesNamed(lines, query[1]) = {}
                 THEN got = None
                 ELSE \A i \in LinesNamed(lines, query[1]) :
                         got = Some(LineFields(SignalLines(lines)[i]))

C11_Witness ==
    /\ Loaded
    /\ outcome = "ok"
    /\ query = Some(<<"a">>)
    /\ got # None
    /\ got[1].resolution = [num |-> 45, den |-> 536870912]
    /\ got[1].cat_id = 3
    /\ Len(SignalLines(lines)) = 2

\* a lookup of a name no line has
C11_WitnessAbsent ==
    /\ Loaded
    /\ outcome = "ok"
    /\ query = Some(<<"c">>)
    /\ got = None
    /\ def_list # <<>>

(***************************************************************************)
(* Claims about the analog encoder.                                        *)
(***************************************************************************)
\* the integer four bytes stand for, read as '!I' (below 2^31) and as '!i'
UnpackU32(b) == ((b[1] * 256 + b[2]) * 256 + b[3]) * 256 + b[4]

UnpackI32(b) ==
    IF b[1] < 128 THEN UnpackU32(b)
    ELSE (0 - UnpackU32([k \in 1..4 |-> 255 - b[k]])) - 1

\* the quotient of the value by the resolution exists and fits in 32 signed
\* bits
QuotientFits(v, r) ==
    LET q == IntOfQuotient(v, r) IN q.err = "none" /\ ~q.over

\* the calls of create_packet_with_data on record
Calls == {encoded[k] : k \in 1..Len(encoded)}

\* C12: for a device id of 0..255, a bound definition and a value whose
\* quotient by the resolution fits in 32 signed bits, the result is 12 bytes:
\* the device id, the clock reading in 0..999999 big-endian, the category id,
\* the sub id, the encoded value big-endian signed, and 0.
C12_TwelveBytes ==
    epc = "bound" =>
        \A call \in Calls :
            (IsU8(dev_from_id)
               /\ QuotientFits(call.data_input, signal_def[1].resolution))
            => /\ call.packet # None
               /\ LET p == call.packet[1]
                  IN  /\ Len(p) = 12
                      /\ p[1] = dev_from_id
                      /\ UnpackU32(SubSeq(p, 2, 5)) = call.timestamp_ms
                      /\ call.timestamp_ms \in 0..999999
                      /\ p[6] = signal_def[1].cat_id
                      /\ p[7] = signal_def[1].sub_id
                      /\ UnpackI32(SubSeq(p, 8, 11)) =
                            IntOfQuotient(call.data_input,
                                          signal_def[1].resolution).n
                      /\ p[12] = 0

Abs(n) == IF n < 0 THEN 0 - n ELSE n

\* C13: the encoded value is value / resolution with its fraction dropped,
\* for positive and negative values alike: it has the sign of the value (or
\* is 0), times the resolution it does not exceed the value in magnitude and
\* is less than one resolution unit away from it; -12.345 at resolution
\* 0.001 gives -12345.  Values and resolutions are the fractions they
\* denote; the two products are compared where they fit in TLC's integers.
C13_TruncatesTowardZero ==
    epc = "bound" =>
        \A call \in Calls :
            call.packet # None =>
                LET n == UnpackI32(SubSeq(call.packet[1], 8, 11))
                    v == call.data_input
                    r == signal_def[1].resolution
                    a == Abs(v.num)
                    b == r.den
                    c == v.den * r.num
                IN  /\ v.num >= 0 => n >= 0
                    /\ v.num <= 0 => n <= 0
                    /\ a <= (IntMax - c) \div b =>
                          /\ Abs(n) * c <= a * b
                          /\ a * b - Abs(n) * c < c
                    /\ (v = Float(0 - 12345, 1000) /\ r = Float(1, 1000))
                          => n = 0 - 12345

C13_Witness ==
    /\ epc = "bound"
    /\ signal_def[1].resolution = Float(1, 1000)
    /\ Len(encoded) = 2
    /\ encoded[1].data_input = Float(0 - 12345, 1000)
    /\ encoded[1].packet # None
    /\ SubSeq(encoded[1].packet[1], 8, 11) = <<255, 255, 207, 199>>
    /\ encoded[2].data_input = Float(0 - 3, 2)
    /\ encoded[2].packet # None

\* C14: when value / resolution with its fraction dropped is outside the
\* 32-bit signed range, the call ends in an error and gives no bytes.
C14_OutOfRangeFails ==
    epc = "bound" =>
        \A call \in Calls :
            LET q == IntOfQuotient(call.data_input, signal_def[1].resolution)
            IN  (q.err = "none" /\ q.over)
                    => call.err # "none" /\ call.packet = None

C14_Witness ==
    /\ epc = "bound"
    /\ signal_def[1].resolution = Float(1, 1000)
    /\ IsU8(signal_def[1].cat_id)
    /\ Len(encoded) = 1
    /\ encoded[1].data_input = Float(3000000, 1)
    /\ encoded[1].err = "struct.error"
    /\ encoded[1].packet = None

EncodeFails ==
    /\ fpc = "links"
    /\ link_idx <= Len(xp_to_efis_links)
    /\ LET link == xp_to_efis_links[link_idx]
       IN  /\ link.dataref_id \in DOMAIN dataref_dict
           /\ LET raw == dataref_dict[link.dataref_id][link.dataref_num + 1]
                   value == IF link.name \in {"HeadingTrue", "HeadingMag"}
                               THEN HeadingNormalise(raw) ELSE raw
               IN  CreatePacketWithData(PC_1_DEV_ID, link.signal_def, value,
                                        0).err # "none"

\* C15: an encode failure is confined to the one packet: the loop sends
\* nothing for that link, goes on to the next link of the cycle and so to
\* the later cycles (unless the user interrupts it).
C15_EncodeFailureConfined ==
    [][(EncodeFails /\ fpc' # "stopped")
          => /\ fpc' = "links"
             /\ link_idx' = link_idx + 1
             /\ sent_links' = sent_links
      ]_vars

\* -180 <= v <= 180
WithinHalfTurn(v) ==
    /\ v.den # 0
    /\ (0 - 180) * v.den <= v.num
    /\ v.num <= 180 * v.den

\* C16: the value handed to the encoder for HeadingTrue and HeadingMag is
\* within [-180, 180] whatever was received, a raw value above 180 having
\* 360 subtracted before the clamp; for any other link it is the raw value.
C16_HeadingInRange ==
    handed # None =>
        LET h == handed[1]
        IN  IF h.name \in {"HeadingTrue", "HeadingMag"}
               THEN /\ WithinHalfTurn(h.data)
                    /\ (WithinHalfTurn(h.raw)) => h.data = h.raw
                    /\ (h.raw.den # 0 /\ h.raw.num > 180 * h.raw.den) =>
                          LET t == h.raw.num - 360 * h.raw.den
                          IN  h.data = IF t > 180 * h.raw.den THEN Float(180, 1)
                                       ELSE Float(t, h.raw.den)
               ELSE h.data = h.raw

(***************************************************************************)
(* Claims about the sensor blocks and the sensor id table.                 *)
(***************************************************************************)
\* a block cut into its records: a record is 3 bytes and 4 more for each of
\* the values its third byte counts
RECURSIVE BlockRecords(_)
BlockRecords(b) ==
    IF Len(b) < 3 THEN <<>>
    ELSE LET n == 3 + 4 * b[3]
         IN  IF Len(b) < n THEN <<b>>
             ELSE <<SubSeq(b, 1, n)>> \o BlockRecords(SubSeq(b, n + 1, Len(b)))

\* C18: every record of a sensor block (a record is emitted for a reading
\* that was dirty when construct_packet was called) has 1 as its second
\* byte, then the count N and N four-byte values.
C18_DirtyFlagIsOne ==
    sent_block # None =>
        \A k \in 1..Len(BlockRecords(sent_block[1])) :
            LET rec == BlockRecords(sent_block[1])[k]
            IN  /\ rec[2] = 1
                /\ Len(rec) = 3 + 4 * rec[3]

\* the step of main that encodes and sends
EncodeStep == mpc = "body" /\ mpc' = "poll"

\* C19: the block sent holds one record for exactly the readings that were
\* dirty before the step, in the order the reading map iterates; after the
\* step every one of them is clean with id and values as before, and every
\* reading that was not dirty is absent from the block and unchanged.
C19_BlockOfDirtyReadings ==
    [][EncodeStep =>
         LET dirty == SelectSeq(sensor_order, LAMBDA n : sensors[n].updated)
         IN  /\ DOMAIN sensors' = DOMAIN sensors
             /\ sensor_order' = sensor_order
             /\ dirty = <<>> => sent_block' = sent_block
             /\ dirty # <<>> =>
                   /\ sent_block' # None
                   /\ LET recs == BlockRecords(sent_block'[1])
                      IN  /\ Len(recs) = Len(dirty)
                          /\ \A k \in 1..Len(dirty) :
                                LET r == sensors[dirty[k]]
                                IN  /\ recs[k][1] = r.sensor_id
                                    /\ recs[k][3] = Len(r.vals)
                                    /\ SubSeq(recs[k], 4, Len(recs[k])) =
                                          PackInts([j \in 1..Len(r.vals) |->
                                                      IntTimes100(r.vals[j])])
             /\ \A n \in DOMAIN sensors :
                   IF sensors[n].updated
                      THEN sensors'[n] = [sensors[n] EXCEPT !.updated = FALSE]
                      ELSE sensors'[n] = sensors[n]
      ]_vars

\* a block of two records was sent and a third reading, which has values,
\* was left out of it
C19_Witness ==
    /\ mpc = "poll"
    /\ Len(sensor_order) = 3
    /\ \A n \in DOMAIN sensors : ~sensors[n].updated /\ sensors[n].vals # <<>>
    /\ sent_block # None
    /\ Len(BlockRecords(sent_block[1])) = 2
    /\ BlockRecords(sent_block[1])[1][1] = 5
    /\ BlockRecords(sent_block[1])[2][1] = 1

\* the ids of a table
IdsOf(ids) == {ids[n] : n \in DOMAIN ids}

\* C20: the name-to-id table only grows: every name keeps its id for ever,
\* the names a step adds get the ids that follow the largest id of the table
\* (a single new name 1 + the maximum), and no two names share an id.
C20_IdTableGrows ==
    /\ [](\A a \in DOMAIN sensor_name_ids : \A b \in DOMAIN sensor_name_ids :
            sensor_name_ids[a] = sensor_name_ids[b] => a = b)
    /\ [][/\ \A n \in DOMAIN sensor_name_ids :
               /\ n \in DOMAIN sensor_name_ids'
               /\ sensor_name_ids'[n] = sensor_name_ids[n]
          /\ LET added == DOMAIN sensor_name_ids' \ DOMAIN sensor_name_ids
                 top == MaxOf(IdsOf(sensor_name_ids))
             IN  {sensor_name_ids'[n] : n \in added} =
                    (top + 1)..(top + Cardinality(added))
         ]_vars

C20_Witness ==
    /\ DOMAIN sensor_name_ids = DOMAIN SeedSensorIds \cup {"Light", "Pressure"}
    /\ sensor_name_ids["Pressure"] = 4
    /\ sensor_name_ids["Light"] = 5
    /\ sensor_name_ids["Game Rotation Vector"] = 3
    /\ "3-axis Gyroscope" \in DOMAIN sensors
    /\ sensors["3-axis Gyroscope"].sensor_id = 1

(***************************************************************************)
(* Claims about concurrent construction of Sensor objects.                 *)
(***************************************************************************)

\* C21: when two threads have constructed Sensor objects for two different
\* names that were not in the table, the two names have different ids, in
\* the table and in the two instances.
C21_DistinctIds ==
    \A a, b \in Threads :
        (/\ a # b
         /\ t_name[a] # t_name[b]
         /\ t_name[a] \notin DOMAIN SeedSensorIds
         /\ t_name[b] \notin DOMAIN SeedSensorIds
         /\ tpc[a] = "done" /\ tpc[b] = "done")
        => /\ sensor_name_ids[t_name[a]] # sensor_name_ids[t_name[b]]
           /\ t_sensor_id[a] # t_sensor_id[b]

(***************************************************************************)
(* Claims about unreadable input.                                          *)
(***************************************************************************)

\* the worker reads a line that belongs to a block: the line "{", or any
\* line while a block is open
ReadsBlockLine ==
    /\ wpc = "read"
    /\ pipe # <<>>
    /\ Head(pipe) = "{" \/ json_str_list # None

\* the block that the line being read closes
ClosedBlock == Append(json_str_list, Head(pipe))

\* C22: a malformed block is swallowed by the worker: on every line of a
\* block the worker keeps running (it goes on to its stop check), a block
\* that does not decode enqueues nothing, a block that decodes is enqueued
\* whatever came before it, and the loop of main is not touched.
C22_MalformedSwallowed ==
    [][(ReadsBlockLine /\ WorkerRead) =>
          /\ wpc' = "stopchk"
          /\ mpc' = mpc /\ rc' = rc
          /\ (json_str_list # None /\ Head(pipe) = "}") =>
                IF JsonDecodes(ClosedBlock)
                   THEN json_queue' = Append(json_queue, JsonLoads(ClosedBlock))
                   ELSE json_queue' = json_queue]_vars

\* C23: a datagram that cannot be read is skipped: the call returns to the
\* forwarding loop, which goes on to its links, no error is recorded and
\* the dictionary is as it was.
C23_UnreadableSkipped ==
    [][(\E dgram \in UnreadableDatagrams : ReadXplaneData(dgram))
          => /\ fpc' = "links"
             /\ fwd_error' = fwd_error
             /\ dataref_dict' = dataref_dict]_vars

\* C24: a failed receive is never fatal: the dictionary and the error record
\* are as before, nothing is sent in that cycle and the loop is at the
\* receive again; and so after any number of failed receives in a row the
\* loop is at the receive (or the user has stopped it) with nothing sent.
C24_SocketErrorRetried ==
    /\ [](socket_errors > 0 =>
             /\ fpc \in {"read", "stopped"}
             /\ sent_links = <<>>)
    /\ [][ReadXplaneDataError =>
             /\ fpc' = "read"
             /\ dataref_dict' = dataref_dict
             /\ fwd_error' = fwd_error
             /\ handed' = handed
             /\ sent_links' = <<>>]_vars

\* the receive has failed MaxErrors times in a row after records had been
\* stored, and the loop is at the receive
C24_Witness ==
    /\ socket_errors = MaxErrors
    /\ fpc = "read"
    /\ dataref_dict # <<>>

\* C27: after a valid datagram was read, every record id of the datagram is
\* mapped to the eight values of its record, in their order.
C27_EightValuesStored ==
    [][\A recs \in DatagramRecords :
          (fpc = "read" /\ ReadXplaneData(DatagramOf(recs)))
             => \A id \in DOMAIN recs :
                   /\ id \in DOMAIN dataref_dict'
                   /\ Len(dataref_dict'[id]) = 8
                   /\ dataref_dict'[id] = recs[id]]_vars

(***************************************************************************)
(* Claims about ranges.                                                    *)
(***************************************************************************)

\* C25: at the resolution semi2deg = 180 / 2^31, a value within [-180, 180],
\* both ends included, has its quotient by the resolution within the 32-bit
\* signed range, and the call gives a packet.
C25_HalfTurnEncodes ==
    epc = "bound" =>
        \A call \in Calls :
            (signal_def[1].resolution = Semi2Deg
               /\ IsU8(dev_from_id)
               /\ WithinHalfTurn(call.data_input))
            => /\ ~IntOfQuotient(call.data_input, Semi2Deg).over
               /\ call.err = "none"
               /\ call.packet # None

\* C26: however many sensor names have been seen, every id of the table and
\* of the instances and every count of values is within 0..255, and the
\* record of every updated sensor can be packed.
C26_FitsInByte ==
    /\ \A n \in DOMAIN sensor_name_ids : IsU8(sensor_name_ids[n])
    /\ \A n \in DOMAIN sensors :
          /\ IsU8(sensors[n].sensor_id)
          /\ IsU8(Len(sensors[n].vals))
          /\ sensors[n].updated => ConstructPacketBytes(sensors[n]).err = "none"
    /\ mpc # "crashed"

=============================================================================
